---- MODULE Spec2Model ----
(***************************************************************************)
(* A model of mydocker/main.py: the Flask handlers of the businesses and   *)
(* reviews API and the two MySQL tables they read and write.               *)
(*                                                                         *)
(* The tables are sets of rows.  A handler is an action; a handler that    *)
(* issues several statements on its connection is also given statement by  *)
(* statement (the *_select / *_update / *_insert steps), so that requests  *)
(* of different clients interleave between statements.  Every statement    *)
(* reads the committed tables as they are when it runs.                    *)
(*                                                                         *)
(*   Spec      one client, every request runs to completion (sequential)   *)
(*   PageSpec  one client, the businesses handlers only, a longer table    *)
(*   EditSpec  one client, the reviews handlers, bodies of every kind      *)
(*   ConcSpec  several clients, requests interleave between statements     *)
(***************************************************************************)
EXTENDS Integers, Sequences, FiniteSets, TLC

VARIABLES
    businesses,      \* rows of table businesses
    reviews,         \* rows of table reviews
    business_auto,   \* next AUTO_INCREMENT value of businesses.business_id
    review_auto,     \* next AUTO_INCREMENT value of reviews.review_id
    sql_strict,      \* the server's sql_mode: TRUE rejects a value that does
                     \* not fit its column, FALSE stores it truncated/clamped
    conn,            \* per client: the request in flight on its connection
    last             \* per client: the request its handler has just completed and
                     \* the response, until the client has read it

vars == <<businesses, reviews, business_auto, review_auto, sql_strict, conn, last>>
tables == <<businesses, reviews, business_auto, review_auto>>

---------------------------------------------------------------------------
(* Bounds of the model *)

MaxBusinessId == 2      \* business ids handed out under Spec
MaxPageBusinessId == 4  \* business ids handed out under PageSpec
MaxReviewId == 2        \* review ids handed out under Spec
MaxEditBusinessId == 1  \* business ids handed out under EditSpec
MaxEditReviewId == 2    \* review ids handed out under EditSpec
MaxConcBusinessId == 1  \* business ids handed out under ConcSpec
MaxConcReviewId == 2    \* review ids handed out under ConcSpec
MaxWriteBusinessId == 1 \* business ids handed out under WriteSpec
MaxWriteReviewId == 1   \* review ids handed out under WriteSpec
MaxArg == 4             \* largest offset / limit a client sends

(* Program constants: the column types of the two CREATE TABLE statements *)

NameLen == 50
StreetLen == 100
CityLen == 50
StateLen == 2
ReviewTextLen == 1000
SmallintMax == 32767
IntMax == 2147483647

---------------------------------------------------------------------------
(* Module constants and the request context *)

BUSINESSES == "businesses"
REVIEWS == "reviews"
BUSINESS_NOT_FOUND == [Error |-> "No business with this business_id exists"]
REVIEW_NOT_FOUND == [Error |-> "No review with this review_id exists"]
MISSING_ATTRIBUTES ==
    [Error |-> "The request body is missing at least one of the required attributes"]
UNABLE_TO_CREATE == [Error |-> "Unable to create lodging"]
ALREADY_REVIEWED ==
    [Error |-> "You have already submitted a review for this business. You can update your previous review, or delete it and submit a new review"]

\* request.host_url and request.url_root: the application is served at the
\* root of its host, so both are scheme://host/
host_url == "http://localhost:8080/"
url_root == "http://localhost:8080/"

\* str(n)
str(n) == ToString(n)

\* int(s) of a query argument: the number whose decimal form s is
int(s) == CHOOSE n \in 0..(MaxArg + 1) : str(n) = s

\* An exception no handler catches: Flask answers 500 with its own HTML page
\* (under debug=True the debugger's page, with the traceback), which is not
\* one of the handlers' JSON objects
INTERNAL_SERVER_ERROR == [html |-> "Internal Server Error"]

Response(status, body) == [status |-> status, body |-> body]

business_fields == {"owner_id", "name", "street_address", "city", "state", "zip_code"}
review_fields == {"user_id", "business_id", "stars"}

\* `field not in content` for some field of the list
missing_field(fields, content) == \E field \in fields : field \notin DOMAIN content

---------------------------------------------------------------------------
(* The store: column types, as the server applies them *)

Truncate(s, n) == IF Len(s) > n THEN SubSeq(s, 1, n) ELSE s
Clamp(v, lo, hi) == IF v > hi THEN hi ELSE IF v < lo THEN lo ELSE v

\* the values of a business fit the columns of table businesses
business_fits(content) ==
    /\ content.owner_id >= -IntMax - 1 /\ content.owner_id <= IntMax
    /\ Len(content.name) <= NameLen
    /\ Len(content.street_address) <= StreetLen
    /\ Len(content.city) <= CityLen
    /\ Len(content.state) <= StateLen
    /\ content.zip_code >= -IntMax - 1 /\ content.zip_code <= IntMax

\* the row the server stores for an INSERT or UPDATE of a business
business_row(id, content) ==
    [business_id |-> id,
     owner_id |-> Clamp(content.owner_id, -IntMax - 1, IntMax),
     name |-> Truncate(content.name, NameLen),
     street_address |-> Truncate(content.street_address, StreetLen),
     city |-> Truncate(content.city, CityLen),
     state |-> Truncate(content.state, StateLen),
     zip_code |-> Clamp(content.zip_code, -IntMax - 1, IntMax)]

\* the values of a review fit the columns of table reviews
review_fits(user_id, stars, review_text) ==
    /\ user_id >= -IntMax - 1 /\ user_id <= IntMax
    /\ stars >= -SmallintMax - 1 /\ stars <= SmallintMax
    /\ Len(review_text) <= ReviewTextLen

\* the row the server stores for an INSERT of a review
review_row(id, user_id, business_id, stars, review_text) ==
    [review_id |-> id,
     user_id |-> Clamp(user_id, -IntMax - 1, IntMax),
     business_id |-> business_id,
     stars |-> Clamp(stars, -SmallintMax - 1, SmallintMax),
     review_text |-> Truncate(review_text, ReviewTextLen)]

\* a statement with these values raises (strict mode, value out of its column)
rejects(fits) == sql_strict /\ ~fits

---------------------------------------------------------------------------
(* Clients and their connections *)

TheClient == 1
Clients == {1, 2}

Idle == [pc |-> "idle"]

NoRequest == [op |-> "none", id |-> 0, content |-> <<>>, status |-> 0, body |-> <<>>]

\* client p may send a request: it has none in flight and has read the
\* response to its previous one
idle(p) == conn[p].pc = "idle" /\ last[p].op = "none"

\* client p reads the response to its request
receive(p) ==
    /\ last[p].op # "none"
    /\ last' = [last EXCEPT ![p] = NoRequest]
    /\ UNCHANGED <<tables, sql_strict, conn>>

\* the handler of client p returns: its connection is released
Reply(p, op, id, content, response) ==
    /\ last' = [last EXCEPT ![p] = [op |-> op, id |-> id, content |-> content,
                                    status |-> response.status,
                                    body |-> response.body]]
    /\ conn' = [conn EXCEPT ![p] = Idle]

---------------------------------------------------------------------------
(* Businesses *)

business_url(base, id) == base \o BUSINESSES \o "/" \o str(id)

\* SELECT ... FROM businesses WHERE business_id=:business_id
select_business(id) == {b \in businesses : b.business_id = id}

\* the body create_business and edit_business return
business_body(id, content, self) ==
    [id |-> id,
     owner_id |-> content.owner_id,
     name |-> content.name,
     street_address |-> content.street_address,
     city |-> content.city,
     state |-> content.state,
     zip_code |-> content.zip_code,
     self |-> self]

\* business_of_row with city read from the name column
business_of_row_city_from_name(row) ==
    [id |-> row.business_id,
     owner_id |-> row.owner_id,
     name |-> row.name,
     street_address |-> row.street_address,
     city |-> row.name,
     state |-> row.state,
     zip_code |-> row.zip_code,
     self |-> business_url(url_root, row.business_id)]

\* the body get_business, get_all_businesses and businesses_for_owner build
\* from a row
business_of_row(row) ==
    [id |-> row.business_id,
     owner_id |-> row.owner_id,
     name |-> row.name,
     street_address |-> row.street_address,
     city |-> row.city,
     state |-> row.state,
     zip_code |-> row.zip_code,
     self |-> business_url(url_root, row.business_id)]

\* POST /businesses
create_business(p, content, max_id) ==
    /\ idle(p)
    /\ IF missing_field(business_fields, content)
       THEN /\ Reply(p, "create_business", 0, content, Response(400, MISSING_ATTRIBUTES))
            /\ UNCHANGED tables
       ELSE IF rejects(business_fits(content))
       THEN /\ Reply(p, "create_business", 0, content, Response(500, UNABLE_TO_CREATE))
            /\ UNCHANGED tables
       ELSE /\ business_auto <= max_id
            /\ businesses' = businesses \cup {business_row(business_auto, content)}
            /\ business_auto' = business_auto + 1
            /\ Reply(p, "create_business", 0, content,
                     Response(201, business_body(business_auto, content,
                                                 business_url(host_url, business_auto))))
            /\ UNCHANGED <<reviews, review_auto>>
    /\ UNCHANGED sql_strict

\* the response of GET /businesses/<id> on the current tables
get_business_response(id) ==
    IF select_business(id) = {}
    THEN Response(404, BUSINESS_NOT_FOUND)
    ELSE Response(200, business_of_row(CHOOSE row \in select_business(id) : TRUE))

\* GET /businesses/<id>
get_business(p, id) ==
    /\ idle(p)
    /\ Reply(p, "get_business", id, <<>>, get_business_response(id))
    /\ UNCHANGED <<tables, sql_strict>>

\* GET /businesses?offset=&limit=

RECURSIVE order_by_business_id(_)
\* ORDER BY business_id
order_by_business_id(rows) ==
    IF rows = {} THEN <<>>
    ELSE LET first == CHOOSE r \in rows : \A q \in rows : r.business_id <= q.business_id
         IN <<first>> \o order_by_business_id(rows \ {first})

\* limit_offset without the OFFSET
limit_offset_from_start(rows, limit, offset) ==
    [i \in 1..(IF Len(rows) < limit THEN Len(rows) ELSE limit) |-> rows[i]]

\* LIMIT :limit OFFSET :offset
limit_offset(rows, limit, offset) ==
    [i \in 1..(IF Len(rows) - offset < limit
               THEN (IF Len(rows) - offset < 0 THEN 0 ELSE Len(rows) - offset)
               ELSE limit) |-> rows[offset + i]]

\* request.args.get(key, default), then int()
arg(args, key, default) == IF key \in DOMAIN args THEN int(args[key]) ELSE default

\* JSON null
None == "null"

\* next_link with <= for <: no link after a page that is exactly full
next_link_full_page_ends(n, limit, offset) ==
    IF n <= limit
    THEN None
    ELSE url_root \o BUSINESSES \o "?limit=" \o str(limit) \o "&offset=" \o str(offset + limit)

\* the `next` link for a page of n entries
next_link(n, limit, offset) ==
    IF n < limit
    THEN None
    ELSE url_root \o BUSINESSES \o "?limit=" \o str(limit) \o "&offset=" \o str(offset + limit)

get_all_businesses_response(args) ==
    LET offset == arg(args, "offset", 0)
        limit == arg(args, "limit", 3)
        rows == limit_offset(order_by_business_id(businesses), limit, offset)
        entries == [i \in 1..Len(rows) |-> business_of_row(rows[i])]
    IN Response(200, [entries |-> entries, next |-> next_link(Len(entries), limit, offset)])

get_all_businesses(p, args) ==
    /\ idle(p)
    /\ Reply(p, "get_all_businesses", 0, args, get_all_businesses_response(args))
    /\ UNCHANGED <<tables, sql_strict>>

\* PUT /businesses/<id>

\* UPDATE businesses SET ... WHERE business_id = :business_id
update_business(id, content) ==
    {IF b.business_id = id THEN business_row(id, content) ELSE b : b \in businesses}

\* the UPDATE, the commit and the return of edit_business
edit_business_update_stmt(p, id, content) ==
    IF rejects(business_fits(content))
    THEN /\ Reply(p, "edit_business", id, content, Response(500, INTERNAL_SERVER_ERROR))
         /\ UNCHANGED tables
    ELSE /\ businesses' = update_business(id, content)
         /\ Reply(p, "edit_business", id, content,
                  Response(200, business_body(id, content, business_url(url_root, id))))
         /\ UNCHANGED <<reviews, business_auto, review_auto>>

\* edit_business with the body checked after the SELECT
edit_business_select_first(p, id, content) ==
    /\ idle(p)
    /\ IF select_business(id) = {}
       THEN /\ Reply(p, "edit_business", id, content, Response(404, BUSINESS_NOT_FOUND))
            /\ UNCHANGED tables
       ELSE IF missing_field(business_fields, content)
       THEN /\ Reply(p, "edit_business", id, content, Response(400, MISSING_ATTRIBUTES))
            /\ UNCHANGED tables
       ELSE edit_business_update_stmt(p, id, content)
    /\ UNCHANGED sql_strict

\* the whole handler, run to completion
edit_business(p, id, content) ==
    /\ idle(p)
    /\ IF missing_field(business_fields, content)
       THEN /\ Reply(p, "edit_business", id, content, Response(400, MISSING_ATTRIBUTES))
            /\ UNCHANGED tables
       ELSE IF select_business(id) = {}
       THEN /\ Reply(p, "edit_business", id, content, Response(404, BUSINESS_NOT_FOUND))
            /\ UNCHANGED tables
       ELSE edit_business_update_stmt(p, id, content)
    /\ UNCHANGED sql_strict

\* the handler up to and including its SELECT
edit_business_select(p, id, content) ==
    /\ idle(p)
    /\ IF missing_field(business_fields, content)
       THEN Reply(p, "edit_business", id, content, Response(400, MISSING_ATTRIBUTES))
       ELSE IF select_business(id) = {}
       THEN Reply(p, "edit_business", id, content, Response(404, BUSINESS_NOT_FOUND))
       ELSE /\ conn' = [conn EXCEPT ![p] = [pc |-> "edit_business_update", id |-> id,
                                            content |-> content]]
            /\ UNCHANGED last
    /\ UNCHANGED <<tables, sql_strict>>

\* the handler from its UPDATE on
edit_business_update(p) ==
    /\ conn[p].pc = "edit_business_update"
    /\ edit_business_update_stmt(p, conn[p].id, conn[p].content)
    /\ UNCHANGED sql_strict

\* delete_lodging on a reviews table whose foreign key does not cascade
delete_lodging_no_cascade(p, id) ==
    /\ idle(p)
    /\ businesses' = businesses \ select_business(id)
    /\ IF Cardinality(select_business(id)) = 1
       THEN Reply(p, "delete_lodging", id, <<>>, Response(204, ""))
       ELSE Reply(p, "delete_lodging", id, <<>>, Response(404, BUSINESS_NOT_FOUND))
    /\ UNCHANGED <<reviews, business_auto, review_auto, sql_strict>>

\* DELETE /businesses/<id>
\* DELETE FROM businesses WHERE business_id=:business_id, with the reviews
\* table's FOREIGN KEY ... ON DELETE CASCADE
delete_lodging(p, id) ==
    /\ idle(p)
    /\ businesses' = businesses \ select_business(id)
    /\ reviews' = {r \in reviews : r.business_id # id}
    /\ IF Cardinality(select_business(id)) = 1
       THEN Reply(p, "delete_lodging", id, <<>>, Response(204, ""))
       ELSE Reply(p, "delete_lodging", id, <<>>, Response(404, BUSINESS_NOT_FOUND))
    /\ UNCHANGED <<business_auto, review_auto, sql_strict>>

\* GET /owners/<owner_id>/businesses (rows come in primary key order)
businesses_for_owner_response(owner_id) ==
    LET rows == order_by_business_id({b \in businesses : b.owner_id = owner_id})
    IN Response(200, [i \in 1..Len(rows) |-> business_of_row(rows[i])])

businesses_for_owner(p, owner_id) ==
    /\ idle(p)
    /\ Reply(p, "businesses_for_owner", owner_id, <<>>, businesses_for_owner_response(owner_id))
    /\ UNCHANGED <<tables, sql_strict>>

---------------------------------------------------------------------------
(* Reviews *)

review_url(base, id) == base \o REVIEWS \o "/" \o str(id)

\* business_exists_query without its WHERE
business_exists_query_any(business_id) == businesses # {}

\* SELECT 1 FROM businesses WHERE business_id = :business_id
business_exists_query(business_id) == \E b \in businesses : b.business_id = business_id

\* review_exists_query with :business_id bound to both placeholders
review_exists_query_wrong_parameter(business_id, user_id) ==
    \E r \in reviews : r.business_id = business_id /\ r.user_id = business_id

\* SELECT 1 FROM reviews WHERE business_id = :business_id AND user_id = :user_id
review_exists_query(business_id, user_id) ==
    \E r \in reviews : r.business_id = business_id /\ r.user_id = user_id

\* SELECT ... FROM reviews WHERE review_id = :review_id
select_review(id) == {r \in reviews : r.review_id = id}

\* content['review_text'] if given, else the default
review_text_of(content, default) ==
    IF "review_text" \in DOMAIN content THEN content.review_text ELSE default

\* foreign_key_holds for a reviews table declared without the FOREIGN KEY
foreign_key_holds_unchecked(business_id) == TRUE

\* FOREIGN KEY (business_id) REFERENCES businesses(business_id), as the store
\* checks it when a row is written
foreign_key_holds(business_id) == \E b \in businesses : b.business_id = business_id

\* insert_review_raises for a reviews table declared with
\* UNIQUE (business_id, user_id)
insert_review_raises_unique(content) ==
    \/ rejects(review_fits(content.user_id, content.stars, review_text_of(content, "")))
    \/ ~foreign_key_holds(content.business_id)
    \/ \E r \in reviews : r.business_id = content.business_id /\ r.user_id = content.user_id

\* the INSERT raises: a value out of its column in strict mode, or the
\* foreign key fails
insert_review_raises(content) ==
    \/ rejects(review_fits(content.user_id, content.stars, review_text_of(content, "")))
    \/ ~foreign_key_holds(content.business_id)

\* the INSERT, SELECT last_insert_id(), the commit and the return of create_review
create_review_insert_stmt(p, content, max_id) ==
    IF insert_review_raises(content)
    THEN /\ Reply(p, "create_review", 0, content, Response(500, UNABLE_TO_CREATE))
         /\ UNCHANGED tables
    ELSE /\ review_auto <= max_id
         /\ reviews' = reviews \cup
                {review_row(review_auto, content.user_id, content.business_id,
                            content.stars, review_text_of(content, ""))}
         /\ review_auto' = review_auto + 1
         /\ Reply(p, "create_review", 0, content,
                  Response(201, [id |-> review_auto,
                                 user_id |-> content.user_id,
                                 business |-> business_url(host_url, content.business_id),
                                 stars |-> content.stars,
                                 review_text |-> review_text_of(content, ""),
                                 self |-> review_url(host_url, review_auto)]))
         /\ UNCHANGED <<businesses, business_auto>>

\* POST /reviews, the whole handler run to completion
create_review(p, content, max_id) ==
    /\ idle(p)
    /\ IF missing_field(review_fields, content)
       THEN /\ Reply(p, "create_review", 0, content, Response(400, MISSING_ATTRIBUTES))
            /\ UNCHANGED tables
       ELSE IF ~business_exists_query(content.business_id)
       THEN /\ Reply(p, "create_review", 0, content, Response(404, BUSINESS_NOT_FOUND))
            /\ UNCHANGED tables
       ELSE IF review_exists_query(content.business_id, content.user_id)
       THEN /\ Reply(p, "create_review", 0, content, Response(409, ALREADY_REVIEWED))
            /\ UNCHANGED tables
       ELSE create_review_insert_stmt(p, content, max_id)
    /\ UNCHANGED sql_strict

\* the handler up to and including the business query
create_review_business(p, content) ==
    /\ idle(p)
    /\ IF missing_field(review_fields, content)
       THEN Reply(p, "create_review", 0, content, Response(400, MISSING_ATTRIBUTES))
       ELSE IF ~business_exists_query(content.business_id)
       THEN Reply(p, "create_review", 0, content, Response(404, BUSINESS_NOT_FOUND))
       ELSE /\ conn' = [conn EXCEPT ![p] = [pc |-> "create_review_exists",
                                            content |-> content]]
            /\ UNCHANGED last
    /\ UNCHANGED <<tables, sql_strict>>

\* the existing-review query
create_review_exists(p) ==
    /\ conn[p].pc = "create_review_exists"
    /\ IF review_exists_query(conn[p].content.business_id, conn[p].content.user_id)
       THEN Reply(p, "create_review", 0, conn[p].content, Response(409, ALREADY_REVIEWED))
       ELSE /\ conn' = [conn EXCEPT ![p].pc = "create_review_insert"]
            /\ UNCHANGED last
    /\ UNCHANGED <<tables, sql_strict>>

\* the handler from its INSERT on
create_review_insert(p, max_id) ==
    /\ conn[p].pc = "create_review_insert"
    /\ create_review_insert_stmt(p, conn[p].content, max_id)
    /\ UNCHANGED sql_strict

\* the body get_review and reviews_for_user build from a row
review_of_row(row) ==
    [id |-> row.review_id,
     user_id |-> row.user_id,
     business |-> business_url(url_root, row.business_id),
     stars |-> row.stars,
     review_text |-> row.review_text,
     self |-> review_url(url_root, row.review_id)]

\* the response of GET /reviews/<id> on the current tables
get_review_response(id) ==
    IF select_review(id) = {}
    THEN Response(404, REVIEW_NOT_FOUND)
    ELSE Response(200, review_of_row(CHOOSE row \in select_review(id) : TRUE))

\* GET /reviews/<id>
get_review(p, id) ==
    /\ idle(p)
    /\ Reply(p, "get_review", id, <<>>, get_review_response(id))
    /\ UNCHANGED <<tables, sql_strict>>

\* PUT /reviews/<id>

\* UPDATE reviews SET stars = :stars, review_text = :review_text WHERE review_id = :review_id
update_review(id, stars, review_text) ==
    {IF r.review_id = id
     THEN [r EXCEPT !.stars = Clamp(stars, -SmallintMax - 1, SmallintMax),
                    !.review_text = Truncate(review_text, ReviewTextLen)]
     ELSE r : r \in reviews}

\* edit_review_text with create_review's default for a missing review_text
edit_review_text_default_empty(content, row) == review_text_of(content, "")

\* the review_text edit_review writes: the request's, else the selected row's
edit_review_text(content, row) == review_text_of(content, row.review_text)

\* the UPDATE, the commit and the return of edit_review; row is the row the
\* handler's SELECT returned
edit_review_update_stmt(p, id, content, row) ==
    IF rejects(review_fits(row.user_id, content.stars, edit_review_text(content, row)))
    THEN /\ Reply(p, "edit_review", id, content, Response(500, INTERNAL_SERVER_ERROR))
         /\ UNCHANGED tables
    ELSE /\ reviews' = update_review(id, content.stars, edit_review_text(content, row))
         /\ Reply(p, "edit_review", id, content,
                  Response(200, [id |-> id,
                                 user_id |-> row.user_id,
                                 business |-> business_url(url_root, row.business_id),
                                 stars |-> content.stars,
                                 review_text |-> edit_review_text(content, row),
                                 self |-> review_url(url_root, id)]))
         /\ UNCHANGED <<businesses, business_auto, review_auto>>

\* the whole handler, run to completion
edit_review(p, id, content) ==
    /\ idle(p)
    /\ IF "stars" \notin DOMAIN content
       THEN /\ Reply(p, "edit_review", id, content, Response(400, MISSING_ATTRIBUTES))
            /\ UNCHANGED tables
       ELSE IF select_review(id) = {}
       THEN /\ Reply(p, "edit_review", id, content, Response(404, REVIEW_NOT_FOUND))
            /\ UNCHANGED tables
       ELSE edit_review_update_stmt(p, id, content, CHOOSE row \in select_review(id) : TRUE)
    /\ UNCHANGED sql_strict

\* the handler up to and including its SELECT
edit_review_select(p, id, content) ==
    /\ idle(p)
    /\ IF "stars" \notin DOMAIN content
       THEN Reply(p, "edit_review", id, content, Response(400, MISSING_ATTRIBUTES))
       ELSE IF select_review(id) = {}
       THEN Reply(p, "edit_review", id, content, Response(404, REVIEW_NOT_FOUND))
       ELSE /\ conn' = [conn EXCEPT ![p] = [pc |-> "edit_review_update", id |-> id,
                                            content |-> content,
                                            row |-> CHOOSE row \in select_review(id) : TRUE]]
            /\ UNCHANGED last
    /\ UNCHANGED <<tables, sql_strict>>

\* the handler from its UPDATE on
edit_review_update(p) ==
    /\ conn[p].pc = "edit_review_update"
    /\ edit_review_update_stmt(p, conn[p].id, conn[p].content, conn[p].row)
    /\ UNCHANGED sql_strict

\* delete_review without the rowcount test
delete_review_always_204(p, id) ==
    /\ idle(p)
    /\ reviews' = reviews \ select_review(id)
    /\ Reply(p, "delete_review", id, <<>>, Response(204, ""))
    /\ UNCHANGED <<businesses, business_auto, review_auto, sql_strict>>

\* DELETE /reviews/<id>
delete_review(p, id) ==
    /\ idle(p)
    /\ reviews' = reviews \ select_review(id)
    /\ IF Cardinality(select_review(id)) = 1
       THEN Reply(p, "delete_review", id, <<>>, Response(204, ""))
       ELSE Reply(p, "delete_review", id, <<>>, Response(404, REVIEW_NOT_FOUND))
    /\ UNCHANGED <<businesses, business_auto, review_auto, sql_strict>>

RECURSIVE order_by_review_id(_)
\* rows in primary key order
order_by_review_id(rows) ==
    IF rows = {} THEN <<>>
    ELSE LET first == CHOOSE r \in rows : \A q \in rows : r.review_id <= q.review_id
         IN <<first>> \o order_by_review_id(rows \ {first})

\* GET /users/<user_id>/reviews (rows come in primary key order)
reviews_for_user_response(user_id) ==
    LET rows == order_by_review_id({r \in reviews : r.user_id = user_id})
    IN Response(200, [i \in 1..Len(rows) |-> review_of_row(rows[i])])

reviews_for_user(p, user_id) ==
    /\ idle(p)
    /\ Reply(p, "reviews_for_user", user_id, <<>>, reviews_for_user_response(user_id))
    /\ UNCHANGED <<tables, sql_strict>>

---------------------------------------------------------------------------
(* Inputs *)

BusinessIds == 1..(MaxBusinessId + 1)
PageBusinessIds == 1..(MaxPageBusinessId + 1)
ReviewIds == 1..(MaxReviewId + 1)
EditReviewIds == 1..(MaxEditReviewId + 1)
Owners == {7, 8}
Users == {21, 22}

\* content without the key field
without(content, field) == [k \in (DOMAIN content) \ {field} |-> content[k]]

a_business == [owner_id |-> 7, name |-> "Cafe", street_address |-> "1 Main St",
               city |-> "Salem", state |-> "OR", zip_code |-> 97301]

\* bodies a client sends to POST /businesses and PUT /businesses/<id>: with
\* all six keys (OR fits the state column, ORE does not) and with one key
\* left out
BusinessContents ==
    [owner_id : Owners, name : {"Cafe"}, street_address : {"1 Main St"},
     city : {"Salem"}, state : {"OR", "ORE"}, zip_code : {97301}]
    \cup {without(a_business, field) : field \in business_fields}

\* the same, every value fitting its column
FittingBusinessContents ==
    [owner_id : Owners, name : {"Cafe"}, street_address : {"1 Main St"},
     city : {"Salem"}, state : {"OR"}, zip_code : {97301}]
    \cup {without(a_business, field) : field \in business_fields}

a_review == [user_id |-> 21, business_id |-> 1, stars |-> 1, review_text |-> "Good"]

\* stars: two values that fit SMALLINT and one that does not
Stars == {1, SmallintMax, 40000}

\* bodies a client sends to POST /reviews
ReviewContents ==
    [user_id : Users, business_id : 1..(MaxEditBusinessId + 1), stars : Stars]
    \cup [user_id : Users, business_id : 1..(MaxEditBusinessId + 1), stars : Stars,
          review_text : {"Good"}]
    \cup {without(a_review, field) : field \in review_fields}

\* the same, every value fitting its column, review_text left out
FittingReviewContents ==
    [user_id : Users, business_id : BusinessIds, stars : {1}]
    \cup {without(a_review, field) : field \in review_fields}

\* bodies a client sends to PUT /reviews/<id>
EditContents ==
    [stars : Stars] \cup [stars : Stars, review_text : {"Good"}]
    \cup {[review_text |-> "Good"], <<>>}

FittingEditContents == {[stars |-> 5], [review_text |-> "Good"], <<>>}

\* what the clients of ConcSpec send
ConcBusinessIds == 1..MaxConcBusinessId
ConcReviewIds == 1..MaxConcReviewId
ConcBusinessContents == {[a_business EXCEPT !.owner_id = 8]}
ConcReviewContents == [user_id : {21}, business_id : ConcBusinessIds, stars : {1}]
ConcEditContents == {[stars |-> 5]}

\* request bodies of the write handlers, with values in and out of their columns
WriteBusinessIds == 1..(MaxWriteBusinessId + 1)
WriteReviewIds == 1..(MaxWriteReviewId + 1)
WriteBusinessContents == {a_business, [a_business EXCEPT !.state = "ORE"]}
WriteReviewContents == [user_id : {21}, business_id : WriteBusinessIds, stars : {1, 40000}]
WriteEditContents == {[stars |-> 5], [stars |-> 40000]}

ArgValues == {str(n) : n \in 0..MaxArg}

\* query strings: offset and limit are each given or left out
PageArgs ==
    {<<>>} \cup [offset : ArgValues] \cup [limit : ArgValues]
           \cup [offset : ArgValues, limit : ArgValues]

\* the first page, by default and spelled out
FirstPageArgs == {<<>>, [offset |-> "0", limit |-> "3"]}

---------------------------------------------------------------------------
(* Specifications *)

Init ==
    /\ businesses = {}
    /\ reviews = {}
    /\ business_auto = 1
    /\ review_auto = 1
    /\ sql_strict \in BOOLEAN
    /\ conn = [p \in Clients |-> Idle]
    /\ last = [p \in Clients |-> NoRequest]

\* the server's default sql_mode; the bodies Next and ConcNext send fit their
\* columns, so the mode makes no difference to them
StrictInit == Init /\ sql_strict

\* One client, every handler, each request run to completion
Next ==
    \/ \E content \in FittingBusinessContents :
          create_business(TheClient, content, MaxBusinessId)
    \/ \E id \in BusinessIds : get_business(TheClient, id)
    \/ \E args \in FirstPageArgs : get_all_businesses(TheClient, args)
    \/ \E id \in BusinessIds, content \in FittingBusinessContents :
          edit_business(TheClient, id, content)
    \/ \E id \in BusinessIds : delete_lodging(TheClient, id)
    \/ \E owner_id \in Owners : businesses_for_owner(TheClient, owner_id)
    \/ \E content \in FittingReviewContents :
          create_review(TheClient, content, MaxReviewId)
    \/ \E id \in ReviewIds : get_review(TheClient, id)
    \/ \E id \in ReviewIds, content \in FittingEditContents :
          edit_review(TheClient, id, content)
    \/ \E id \in ReviewIds : delete_review(TheClient, id)
    \/ \E user_id \in Users : reviews_for_user(TheClient, user_id)
    \/ receive(TheClient)

Spec == StrictInit /\ [][Next]_vars

\* One client, the businesses handlers, a table long enough for a second page
PageNext ==
    \/ \E content \in BusinessContents :
          create_business(TheClient, content, MaxPageBusinessId)
    \/ \E id \in PageBusinessIds : get_business(TheClient, id)
    \/ \E args \in PageArgs : get_all_businesses(TheClient, args)
    \/ \E id \in PageBusinessIds, content \in BusinessContents :
          edit_business(TheClient, id, content)
    \/ \E id \in PageBusinessIds : delete_lodging(TheClient, id)
    \/ \E owner_id \in Owners : businesses_for_owner(TheClient, owner_id)
    \/ receive(TheClient)

PageSpec == Init /\ [][PageNext]_vars

\* One client, the reviews handlers, every kind of body
EditNext ==
    \/ create_business(TheClient, a_business, MaxEditBusinessId)
    \/ \E content \in ReviewContents :
          create_review(TheClient, content, MaxEditReviewId)
    \/ \E id \in EditReviewIds : get_review(TheClient, id)
    \/ \E id \in EditReviewIds, content \in EditContents :
          edit_review(TheClient, id, content)
    \/ \E id \in EditReviewIds : delete_review(TheClient, id)
    \/ \E user_id \in Users : reviews_for_user(TheClient, user_id)
    \/ receive(TheClient)

EditSpec == Init /\ [][EditNext]_vars

\* Several clients; a handler of several statements runs statement by
\* statement, and the requests of the clients interleave between them
ConcNext ==
    \/ \E p \in Clients : create_business(p, a_business, MaxConcBusinessId)
    \/ \E p \in Clients, id \in ConcBusinessIds, content \in ConcBusinessContents :
          edit_business_select(p, id, content)
    \/ \E p \in Clients : edit_business_update(p)
    \/ \E p \in Clients, id \in ConcBusinessIds : delete_lodging(p, id)
    \/ \E p \in Clients, content \in ConcReviewContents :
          create_review_business(p, content)
    \/ \E p \in Clients : create_review_exists(p)
    \/ \E p \in Clients : create_review_insert(p, MaxConcReviewId)
    \/ \E p \in Clients, id \in ConcReviewIds, content \in ConcEditContents :
          edit_review_select(p, id, content)
    \/ \E p \in Clients : edit_review_update(p)
    \/ \E p \in Clients, id \in ConcReviewIds : delete_review(p, id)
    \/ \E p \in Clients : receive(p)

ConcSpec == StrictInit /\ [][ConcNext]_vars

\* The six write handlers, one request at a time, with values that fit their
\* columns and values that do not, on a server of either sql_mode
WriteNext ==
    \/ \E content \in WriteBusinessContents :
          create_business(TheClient, content, MaxWriteBusinessId)
    \/ \E id \in WriteBusinessIds, content \in WriteBusinessContents :
          edit_business(TheClient, id, content)
    \/ \E id \in WriteBusinessIds : delete_lodging(TheClient, id)
    \/ \E content \in WriteReviewContents :
          create_review(TheClient, content, MaxWriteReviewId)
    \/ \E id \in WriteReviewIds, content \in WriteEditContents :
          edit_review(TheClient, id, content)
    \/ \E id \in WriteReviewIds : delete_review(TheClient, id)
    \/ receive(TheClient)

WriteSpec == Init /\ [][WriteNext]_vars

---------------------------------------------------------------------------
(* Properties *)

\* the request the handler of the one client has just completed
done == last[TheClient]

\* the request the step completes for the one client (op "none": no request)
done_next == last'[TheClient]

\* the reviews of tbl by user_id for business_id
Matching(tbl, business_id, user_id) ==
    {r \in tbl : r.business_id = business_id /\ r.user_id = user_id}

has_all(fields, content) == fields \subseteq DOMAIN content

\* a Create-Review for a pair that has a review: 409, the table as it was
C1_SecondCreate ==
    (/\ done_next.op = "create_review"
     /\ has_all(review_fields, done_next.content)
     /\ Matching(reviews, done_next.content.business_id, done_next.content.user_id) # {})
    => /\ done_next.status = 409
       /\ reviews' = reviews
       /\ Cardinality(Matching(reviews', done_next.content.business_id,
                               done_next.content.user_id)) = 1

\* C1: under sequential execution the store holds at most one review per
\* (business_id, user_id) pair after any sequence of the six write handlers,
\* and a Create-Review for a pair that already has a review returns 409 and
\* leaves the reviews table as it is, with exactly one row for the pair.
C1_OneReviewPerPair ==
    /\ [](\A r1, r2 \in reviews :
            (r1.business_id = r2.business_id /\ r1.user_id = r2.user_id) => r1 = r2)
    /\ [][C1_SecondCreate]_vars

\* a second Create-Review for a pair was answered 409 while the table holds
\* reviews of two pairs
C1_Witness ==
    /\ done.op = "create_review"
    /\ done.status = 409
    /\ Cardinality(Matching(reviews, done.content.business_id, done.content.user_id)) = 1
    /\ Cardinality(reviews) = 2

\* the INSERT step of client p, its business still there
C2_Insert(p) ==
    (/\ conn[p].pc = "create_review_insert"
     /\ conn'[p].pc = "idle"
     /\ \E b \in businesses : b.business_id = conn[p].content.business_id)
    => /\ last'[p].op = "create_review"
       /\ last'[p].status = 201
       /\ Cardinality(Matching(reviews', conn[p].content.business_id,
                               conn[p].content.user_id))
            = Cardinality(Matching(reviews, conn[p].content.business_id,
                                   conn[p].content.user_id)) + 1

\* C2: two concurrent Create-Review requests for the same pair can both pass
\* the existing-review query before either inserts; both are answered 201 and
\* the table ends with two reviews for the pair.  Nothing in the store stops
\* the second INSERT: a request that has passed both queries and whose business
\* still exists inserts its row and is answered 201, whatever rows the table
\* holds for its pair by then.
C2_InsertIgnoresDuplicates == [][\A p \in Clients : C2_Insert(p)]_vars

\* both clients were answered 201 for the same pair, and the table holds two
\* reviews for it
C2_Witness ==
    /\ \A p \in Clients : last[p].op = "create_review" /\ last[p].status = 201
    /\ last[1].content.business_id = last[2].content.business_id
    /\ last[1].content.user_id = last[2].content.user_id
    /\ Cardinality(Matching(reviews, last[1].content.business_id,
                            last[1].content.user_id)) = 2

\* the step of a Delete-Business of an existing id
C3_Delete ==
    (/\ done_next.op = "delete_lodging"
     /\ \E b \in businesses : b.business_id = done_next.id)
    => /\ done_next.status = 204
       /\ \A id \in {done_next.id} : get_business_response(id)'.status = 404
       /\ \A rv \in reviews : rv.business_id = done_next.id =>
            /\ get_review_response(rv.review_id)'.status = 404
            /\ \A u \in Users :
                 \A i \in DOMAIN reviews_for_user_response(u)'.body :
                    reviews_for_user_response(u)'.body[i].id # rv.review_id
       /\ \A rv \in reviews : rv.business_id # done_next.id =>
            /\ rv \in reviews'
            /\ get_review_response(rv.review_id)' = get_review_response(rv.review_id)
       /\ reviews' \subseteq reviews

\* what is gone stays gone, whatever request other than Create-Business follows
C3_StaysGone ==
    done_next.op # "create_business"
    => /\ \A id \in 1..(business_auto - 1) :
            get_business_response(id).status = 404
            => get_business_response(id)'.status = 404
       /\ \A rid \in 1..(review_auto - 1) :
            get_review_response(rid).status = 404
            => get_review_response(rid)'.status = 404

\* C3: Delete-Business of an existing id returns 204; from then on
\* Get-Business(id) returns 404 and every review that referenced the business
\* is gone (Get-Review returns 404, no Reviews-for-User list holds it), while
\* the reviews of other businesses are unchanged.
C3_DeleteBusinessCascades == [][C3_Delete /\ C3_StaysGone]_vars

\* a business was deleted, one of the two reviews written so far is gone and
\* the other, of a business that still exists, is there
C3_Witness ==
    /\ done.op = "delete_lodging"
    /\ done.status = 204
    /\ review_auto = 3
    /\ Cardinality(reviews) = 1
    /\ \A rv \in reviews : get_business_response(rv.business_id).status = 200

\* Create-Business of a body with all six keys, then Get-Business of the id
\* it returned: 201 with an id never handed out before, then 200 with the six
\* submitted values and the same id and self
created_then_got ==
    /\ done_next.status = 201
    /\ done_next.body.id >= business_auto
    /\ \A b \in businesses : b.business_id # done_next.body.id
    /\ \A id \in {done_next.body.id} :
          /\ get_business_response(id)'.status = 200
          /\ \A f \in business_fields :
                get_business_response(id)'.body[f] = done_next.content[f]
          /\ get_business_response(id)'.body.id = done_next.body.id
          /\ get_business_response(id)'.body.self = done_next.body.self

\* C4 as stated: for every body with all six keys
C4_EveryPayload ==
    [][(/\ done_next.op = "create_business"
        /\ has_all(business_fields, done_next.content))
       => created_then_got]_vars

\* C4, amended: for every body with all six keys whose values fit the columns
\* of table businesses (owner_id and zip_code INT, name and city at most 50
\* characters, street_address at most 100, state at most 2), Create-Business
\* returns 201 with a fresh id and Get-Business of that id returns 200 with the
\* submitted values and the same id and self.
C4_CreateThenGet ==
    [][(/\ done_next.op = "create_business"
        /\ has_all(business_fields, done_next.content)
        /\ business_fits(done_next.content))
       => created_then_got]_vars

\* a second business was created and can be fetched
C4_Witness ==
    /\ done.op = "create_business"
    /\ done.status = 201
    /\ done.body.id = 2
    /\ get_business_response(2).status = 200
    /\ get_business_response(2).body.owner_id = done.content.owner_id

\* the request just completed asked for the first page of three
first_page_of_three ==
    /\ done.op = "get_all_businesses"
    /\ "limit" \in DOMAIN done.content
    /\ done.content.limit = "3"
    /\ "offset" \in DOMAIN done.content => done.content.offset = "0"

link_to_second_page == "http://localhost:8080/businesses?limit=3&offset=3"

\* C5 as stated: next is null on a table of exactly 3 businesses
C5_NullAtThree ==
    first_page_of_three
    => /\ Cardinality(businesses) = 3 => done.body.next = None
       /\ Cardinality(businesses) >= 4 => done.body.next = link_to_second_page

\* C5, amended: Get-All-Businesses with limit=3 and offset=0 returns next = null
\* on a table of fewer than 3 businesses, and on a table of 3 or more a next
\* that points to offset=3 with limit=3.
C5_NextOfFirstPage ==
    first_page_of_three
    => /\ Cardinality(businesses) < 3 => done.body.next = None
       /\ Cardinality(businesses) >= 3 => done.body.next = link_to_second_page

\* the first page of a table of exactly three businesses carries a next link
C5_Witness ==
    /\ first_page_of_three
    /\ Cardinality(businesses) = 3
    /\ done.body.next = link_to_second_page

\* the page a request for offset and limit is due: the businesses at
\* positions offset .. offset+limit-1 in ascending id order
is_page(entries, offset, limit) ==
    /\ DOMAIN entries = 1..Len(entries)
    /\ \/ Len(entries) = limit /\ Cardinality(businesses) >= offset + limit
       \/ Len(entries) = Cardinality(businesses) - offset
            /\ Cardinality(businesses) < offset + limit
       \/ Len(entries) = 0 /\ Cardinality(businesses) <= offset
    /\ \A i \in 1..Len(entries) :
          \E b \in businesses :
             /\ Cardinality({q \in businesses : q.business_id < b.business_id})
                   = offset + i - 1
             /\ entries[i].id = b.business_id
             /\ \A f \in business_fields : entries[i][f] = b[f]
             /\ entries[i].self = "http://localhost:8080/businesses/" \o ToString(b.business_id)

\* C6: for every table, offset >= 0 and limit >= 1, Get-All-Businesses returns
\* 200 with the businesses at positions offset .. offset+limit-1 of the table
\* in ascending id order; next is null exactly when fewer than limit entries
\* are returned, and otherwise carries the same limit and offset + limit.
C6_Page ==
    done.op = "get_all_businesses"
    => LET offset == IF "offset" \in DOMAIN done.content THEN int(done.content.offset) ELSE 0
           limit == IF "limit" \in DOMAIN done.content THEN int(done.content.limit) ELSE 3
       IN limit >= 1
          => /\ done.status = 200
             /\ is_page(done.body.entries, offset, limit)
             /\ done.body.next = None <=> Len(done.body.entries) < limit
             /\ done.body.next # None
                  => done.body.next = "http://localhost:8080/businesses?limit="
                                        \o ToString(limit) \o "&offset="
                                        \o ToString(offset + limit)

\* a full page that does not start at the first business, and more follow
C6_Witness ==
    /\ done.op = "get_all_businesses"
    /\ DOMAIN done.content = {"offset", "limit"}
    /\ done.content.offset = "1"
    /\ done.content.limit = "2"
    /\ Len(done.body.entries) = 2
    /\ Cardinality(businesses) = 4
    /\ done.body.next # None

\* the step of a Create-Review for a business_id that is no business
C7_Step ==
    (/\ done_next.op = "create_review"
     /\ has_all(review_fields, done_next.content)
     /\ \A b \in businesses : b.business_id # done_next.content.business_id)
    => /\ done_next.status = 404
       /\ done_next.body = [Error |-> "No business with this business_id exists"]
       /\ reviews' = reviews

\* C7: Create-Review with all required keys for a business_id that is no
\* business returns 404 with the BUSINESS_NOT_FOUND body and leaves the reviews
\* table as it is.
C7_NoBusinessNoReview == [][C7_Step]_vars

\* a Create-Review was answered 404 while another business and a review exist
C7_Witness ==
    /\ done.op = "create_review"
    /\ done.status = 404
    /\ businesses # {}
    /\ reviews # {}

\* Edit-Review of an existing review with stars and without review_text:
\* 200, the row gets the submitted stars and is otherwise as before, and no
\* other row changes
edited_stars_only ==
    /\ done_next.status = 200
    /\ \E old \in reviews :
          /\ old.review_id = done_next.id
          /\ reviews' = (reviews \ {old})
                           \cup {[old EXCEPT !.stars = done_next.content.stars]}

edits_stars_only ==
    /\ done_next.op = "edit_review"
    /\ "stars" \in DOMAIN done_next.content
    /\ "review_text" \notin DOMAIN done_next.content
    /\ \E old \in reviews : old.review_id = done_next.id

\* C8 as stated: for every body that has stars and no review_text
C8_EveryStars == [][edits_stars_only => edited_stars_only]_vars

\* C8, amended: for every existing review and every Edit-Review body that has
\* stars, a value that fits the SMALLINT column, and no review_text, the call
\* returns 200, the stored review_text is the one stored before the call,
\* stars is the submitted value, user_id and business_id are unchanged and no
\* other review changes.
C8_TextKept ==
    [][(/\ edits_stars_only
        /\ done_next.content.stars >= -SmallintMax - 1
        /\ done_next.content.stars <= SmallintMax)
       => edited_stars_only]_vars

\* an edit without review_text of a review whose text is not the default
C8_Witness ==
    /\ done.op = "edit_review"
    /\ done.status = 200
    /\ "review_text" \notin DOMAIN done.content
    /\ Cardinality(reviews) = 2
    /\ \E rv \in reviews :
          /\ rv.review_id = done.id
          /\ rv.review_text = "Good"
          /\ rv.stars = done.content.stars

\* the request the step completes lacks a key its handler requires
lacks_required_key ==
    \/ /\ done_next.op \in {"create_business", "edit_business"}
       /\ ~has_all(business_fields, done_next.content)
    \/ /\ done_next.op = "create_review"
       /\ ~has_all(review_fields, done_next.content)
    \/ /\ done_next.op = "edit_review"
       /\ "stars" \notin DOMAIN done_next.content

\* the step of a request whose body lacks a required key
C9_Step ==
    lacks_required_key
    => /\ done_next.status = 400
       /\ done_next.body =
            [Error |-> "The request body is missing at least one of the required attributes"]
       /\ businesses' = businesses
       /\ reviews' = reviews

\* C9: Create-Business, Update-Business, Create-Review and Edit-Review answer
\* a body that lacks a required key with 400 and the missing-attributes body,
\* whichever key is missing and whether or not the addressed id exists, and
\* leave both tables unchanged.
C9_MissingKeyIs400 == [][C9_Step]_vars

\* an Update-Business of an id that is no business was answered 400
C9_Witness ==
    /\ done.op = "edit_business"
    /\ done.status = 400
    /\ businesses # {}
    /\ \A b \in businesses : b.business_id # done.id

\* the step of a Delete-Review
C10_Step ==
    done_next.op = "delete_review"
    => /\ done_next.status = 204 <=> \E rv \in reviews : rv.review_id = done_next.id
       /\ done_next.status # 204
            => /\ done_next.status = 404
               /\ done_next.body = [Error |-> "No review with this review_id exists"]
               /\ reviews' = reviews
       /\ done_next.status = 204
            => \E rv \in reviews : rv.review_id = done_next.id /\ reviews' = reviews \ {rv}
       /\ businesses' = businesses

\* C10: Delete-Review(id) returns 204 exactly when a review with that id exists
\* as the DELETE runs, and 404 with the REVIEW_NOT_FOUND body otherwise; on 404
\* neither table changes, on 204 the review with that id is removed and every
\* other review and every business is unchanged.
C10_DeleteReview == [][C10_Step]_vars

\* a review was deleted and another is still there
C10_Witness ==
    /\ done.op = "delete_review"
    /\ done.status = 204
    /\ reviews # {}

write_ops ==
    {"create_business", "edit_business", "delete_lodging",
     "create_review", "edit_review", "delete_review"}

\* a JSON object with the single key Error
is_error_json(body) == DOMAIN body = {"Error"}

\* a statement of the write request (op, id, content) raises in the store, on
\* the tables as they are
store_raises(op, id, content) ==
    \/ /\ op = "create_business"
       /\ has_all(business_fields, content)
       /\ sql_strict /\ ~business_fits(content)
    \/ /\ op = "edit_business"
       /\ has_all(business_fields, content)
       /\ \E b \in businesses : b.business_id = id
       /\ sql_strict /\ ~business_fits(content)
    \/ /\ op = "create_review"
       /\ has_all(review_fields, content)
       /\ \E b \in businesses : b.business_id = content.business_id
       /\ Matching(reviews, content.business_id, content.user_id) = {}
       /\ sql_strict /\ content.stars > SmallintMax
    \/ /\ op = "edit_review"
       /\ "stars" \in DOMAIN content
       /\ \E rv \in reviews : rv.review_id = id
       /\ sql_strict /\ content.stars > SmallintMax

\* C11: for every write operation (Create-Business, Update-Business,
\* Delete-Business, Create-Review, Edit-Review, Delete-Review), a request in
\* which the store raises an exception is answered 500 with a JSON body whose
\* single key is Error; no handler lets the exception escape to the client.
C11_StoreFailureIsJsonError ==
    [][(done_next.op \in write_ops
        /\ \A r \in {done_next} : store_raises(r.op, r.id, r.content))
       => /\ done_next.status = 500
          /\ is_error_json(done_next.body)]_vars

\* the store raised in the UPDATE of edit_business or of edit_review, and the
\* tables are as they were
C11_Witness ==
    /\ done.op \in {"edit_business", "edit_review"}
    /\ done.status = 500
    /\ done.body = [html |-> "Internal Server Error"]
    /\ businesses # {}

\* every stored review references a stored business
C12_Referenced ==
    \A rv \in reviews : \E b \in businesses : b.business_id = rv.business_id

\* the INSERT step of a Create-Review of client p whose business has been
\* deleted since the handler's business query
C12_Insert(p) ==
    (/\ conn[p].pc = "create_review_insert"
     /\ conn'[p].pc = "idle"
     /\ \A b \in businesses : b.business_id # conn[p].content.business_id)
    => /\ last'[p].op = "create_review"
       /\ last'[p].status = 500
       /\ last'[p].body = [Error |-> "Unable to create lodging"]
       /\ reviews' = reviews
       /\ businesses' = businesses

\* C12: in every reachable state, under any interleaving of the statements of
\* concurrent Create-Review, Delete-Business and the other write handlers,
\* every stored review's business_id is the id of a stored business; when a
\* business is deleted between a Create-Review's business query and its
\* INSERT, the foreign key rejects the INSERT, the request ends with 500 and
\* no review referencing the deleted business is stored.
C12_ForeignKeyKept ==
    /\ []C12_Referenced
    /\ [][\A p \in Clients : C12_Insert(p)]_vars

\* a Create-Review passed its business query, the business was deleted, and
\* the request ended with 500
C12_Witness ==
    \E p \in Clients :
        /\ last[p].op = "create_review"
        /\ last[p].status = 500
        /\ business_auto > 1
        /\ \A b \in businesses : b.business_id # last[p].content.business_id

====
